---------------------------- MODULE Spec2Model ----------------------------
(***************************************************************************)
(* MidiProcessing: MIDI <-> piano-roll conversion.                         *)
(*                                                                         *)
(*   preprocess.py : isSuitable, Converter._merge, Splitter.split,         *)
(*                   preprocess (batch driver)                             *)
(*   write_midi.py : set_piano_roll_to_instrument                          *)
(*                                                                         *)
(* Each component is a state machine of its own (SpecFilter, SpecMerge,    *)
(* SpecSplit, SpecBatch, SpecSynth) over one set of variables; the         *)
(* variables of the components a specification does not run stay idle.     *)
(*                                                                         *)
(* Arrays are modelled sparsely: a piano-roll row is the set of its        *)
(* non-zero cells, so the all-zero row is {}.  Times are exact integers    *)
(* in units of 1/64 s, which represents 60/tempo/beat_resolution exactly   *)
(* for the tempi and resolutions drawn here (no floating-point rounding).  *)
(***************************************************************************)
EXTENDS Integers, Sequences, FiniteSets, TLC

VARIABLES
    pc,             \* position of the component being run
    \* ---- Splitter.split
    pianoroll,      \* input (T, 128, tracks): sequence of rows
    last_bar_mode,  \* "fill", "remove" or anything else
    clamped,        \* result of _clampPitch
    padded,         \* result of _pad
    batch,          \* result of _reshapeToInput: sequence of segments
    raised,         \* exception that left the operation, or "none"
    \* ---- Converter._merge
    tracks,         \* multitrack.tracks: sequence of source tracks
    merged,         \* tracks of the returned Multitrack
    \* ---- isSuitable
    pm,             \* what pretty_midi.PrettyMIDI(path) yields
    midi_info,      \* <<result of _get_midi_info>>, << >> while there is none
    suitable,       \* return value of isSuitable
    \* ---- preprocess
    path_list,      \* the discovered files
    next_path,      \* index of the next file of the for loop
    cnt,            \* the counter of preprocess
    outcome,        \* per file: what happened to it
    saved,          \* the (file, segment) artifacts written by saveMatrix
    reported,       \* the count printed in the final summary
    \* ---- set_piano_roll_to_instrument
    piano_roll,     \* the column of pitch note_num of the flattened roll; the
                    \*   other 127 columns are zero and emit no note
    shape,          \* <<segments, steps>> of the piano-roll passed in
    tempo,
    beat_res,       \* the beat_resolution argument
    note_num,       \* the pitch of the column
    start_time,     \* the lists of the pitch's loop body, as they stand
    end_time,       \*   when notes are emitted
    duration,
    notes           \* instrument.notes

splitVars  == <<pianoroll, last_bar_mode, clamped, padded, batch>>
mergeVars  == <<tracks, merged>>
filterVars == <<pm, midi_info, suitable>>
batchVars  == <<path_list, next_path, cnt, outcome, saved, reported>>
synthVars  == <<piano_roll, shape, tempo, beat_res, note_num, start_time, end_time,
                duration, notes>>
vars == <<pc, raised, splitVars, mergeVars, filterVars, batchVars, synthVars>>

Min(a, b) == IF a < b THEN a ELSE b
Max(a, b) == IF a > b THEN a ELSE b

\* The values a component's variables hold while another component runs.
IdleSplit ==
    /\ pianoroll = << >> /\ last_bar_mode = "fill"
    /\ clamped = << >> /\ padded = << >> /\ batch = << >>
IdleMerge == tracks = << >> /\ merged = << >>
IdleFilter == pm = [parsed |-> FALSE] /\ midi_info = << >> /\ suitable = FALSE
IdleBatch ==
    /\ path_list = << >> /\ next_path = 1 /\ cnt = 0
    /\ outcome = << >> /\ saved = {} /\ reported = -1
IdleSynth ==
    /\ piano_roll = << >> /\ shape = <<0, 0>> /\ tempo = 120 /\ beat_res = 16 /\ note_num = 0
    /\ start_time = << >> /\ end_time = << >> /\ duration = << >> /\ notes = << >>

(***************************************************************************)
(* Splitter (preprocess.py 123-157)                                        *)
(***************************************************************************)
beat_resolution == 4
base_note == 4
bars == 4
pitch_beg == 24
pitch_end == 108
input_len == beat_resolution * base_note * bars

\* Bounds of the inputs drawn for split.
MaxT == 130
MaxSeed == 1

\* The number of tracks of a stacked piano-roll: one per Instrument member.
NumTracks == 4

\* Row i of the input drawn with `seed`: one cell on, its pitch and track
\* depending on i (pitches outside [24, 108) exercise the clamp).
InputRow(i, seed) == {<<(5 * i + seed) % 128, i % NumTracks>>}
InputRoll(T, seed) == [i \in 1..T |-> InputRow(i, seed)]

\* pianoroll[:, pitch_beg:pitch_end, :]
Splitter_clampPitch(roll) ==
    [i \in 1..Len(roll) |->
        {<<c[1] - pitch_beg, c[2]>> : c \in {d \in roll[i] : d[1] >= pitch_beg /\ d[1] < pitch_end}}]

\* np.zeros([n, pitches, tracks])
Zeros(n) == [i \in 1..n |-> {}]

\* np.delete(roll, np.s_[-r:], axis=0), r > 0: the rows whose 0-based index
\* lies in the slice [max(len - r, 0), len) are dropped, the others kept in
\* order.
DeleteTail(roll, r) ==
    LET lo == Max(Len(roll) - r, 0)
        keep == {i \in 1..Len(roll) : ~((i - 1) >= lo /\ (i - 1) < Len(roll))}
    IN  [i \in 1..Cardinality(keep) |-> roll[CHOOSE k \in keep : Cardinality({m \in keep : m < k}) = i - 1]]

\* A mutant of _pad: the bubble is appended without testing the remainder.
Splitter_pad_always(roll, mode) ==
    IF mode = "fill" THEN roll \o Zeros(input_len - (Len(roll) % input_len))
    ELSE IF mode = "remove" /\ (Len(roll) % input_len) # 0
         THEN DeleteTail(roll, Len(roll) % input_len)
         ELSE roll

Splitter_pad(roll, mode) ==
    IF (Len(roll) % input_len) # 0
    THEN IF mode = "fill"
         THEN roll \o Zeros(input_len - (Len(roll) % input_len))
         ELSE IF mode = "remove"
              THEN DeleteTail(roll, Len(roll) % input_len)
              ELSE roll
    ELSE roll

Splitter_adjustVelocity(roll) == roll

\* numpy's reshape(-1, input_len, pitches, tracks): the unknown dimension is
\* size / known when known # 0 and divides size; otherwise ValueError.
ReshapeOk(roll) ==
    LET pitches == pitch_end - pitch_beg
        size == Len(roll) * pitches * NumTracks
        known == input_len * pitches * NumTracks
    IN  known # 0 /\ (size % known) = 0

\* A mutant of _reshapeToInput: the tail that fills no segment is dropped
\* instead of being rejected.
Splitter_reshapeToInput_floor(roll) ==
    [raised |-> "none",
     value  |-> [k \in 1..(Len(roll) \div input_len) |->
                    [i \in 1..input_len |-> roll[(k - 1) * input_len + i]]]]

\* pianoroll.reshape(-1, input_len, pitches, tracks), C order: step i of
\* segment k is row k * input_len + i (0-based).
Splitter_reshapeToInput(roll) ==
    IF ReshapeOk(roll)
    THEN [raised |-> "none",
          value  |-> [k \in 1..(Len(roll) \div input_len) |->
                        [i \in 1..input_len |-> roll[(k - 1) * input_len + i]]]]
    ELSE [raised |-> "ValueError", value |-> << >>]

Modes == {"fill", "remove", "keep"}

InitSplit ==
    /\ pc = "split"
    /\ raised = "none"
    /\ \E T \in 0..MaxT, seed \in 0..MaxSeed : pianoroll = InputRoll(T, seed)
    /\ last_bar_mode \in Modes
    /\ clamped = << >> /\ padded = << >> /\ batch = << >>
    /\ IdleMerge /\ IdleFilter /\ IdleBatch /\ IdleSynth

\* Splitter.split(pianoroll, last_bar_mode)
split ==
    /\ pc = "split"
    /\ LET c == Splitter_clampPitch(pianoroll)
           p == Splitter_adjustVelocity(Splitter_pad(c, last_bar_mode))
           b == Splitter_reshapeToInput(p)
       IN  /\ clamped' = c
           /\ padded' = p
           /\ batch' = b.value
           /\ raised' = b.raised
    /\ pc' = "split_done"
    /\ UNCHANGED <<pianoroll, last_bar_mode, mergeVars, filterVars, batchVars, synthVars>>

NextSplit == split

SpecSplit == InitSplit /\ [][NextSplit]_vars

\* np.concatenate of the segments of a batch along the time axis.
RECURSIVE Concatenate(_)
Concatenate(segments) ==
    IF segments = << >> THEN << >>
    ELSE Head(segments) \o Concatenate(Tail(segments))

\* C1: in fill mode _pad returns the smallest multiple of input_len >= T rows,
\* the T original rows unchanged and every added row zero; in remove mode it
\* returns the largest multiple of input_len <= T rows, which are the first
\* rows of the input (length 0 when T < input_len).
C1_PadTrim ==
    pc = "split_done" =>
        LET T == Len(clamped)
            n == Len(padded)
        IN  /\ last_bar_mode = "fill" =>
                /\ (n % input_len) = 0 /\ n >= T /\ n - T < input_len
                /\ \A i \in 1..T : padded[i] = clamped[i]
                /\ \A i \in (T + 1)..n : padded[i] = {}
            /\ last_bar_mode = "remove" =>
                /\ (n % input_len) = 0 /\ n <= T /\ T - n < input_len
                /\ \A i \in 1..n : padded[i] = clamped[i]

C1_Witness ==
    /\ pc = "split_done" /\ last_bar_mode = "fill"
    /\ Len(clamped) = input_len + 1 /\ Len(padded) = 2 * input_len
    /\ \E i \in 1..Len(clamped) : clamped[i] # {}

\* C10: with a mode other than fill and remove _pad returns its input, and
\* split then raises whenever the length is no multiple of input_len; a batch
\* that split returns has Len(padded) / input_len segments whose
\* concatenation is the padded roll.
C10_SplitRejectsOrRoundTrips ==
    pc = "split_done" =>
        /\ last_bar_mode \notin {"fill", "remove"} =>
            /\ padded = clamped
            /\ (Len(clamped) % input_len) # 0 => raised = "ValueError" /\ batch = << >>
        /\ raised = "none" =>
            /\ Len(batch) * input_len = Len(padded)
            /\ \A k \in 1..Len(batch) : Len(batch[k]) = input_len
            /\ Concatenate(batch) = padded

C10_Witness ==
    /\ pc = "split_done" /\ last_bar_mode = "keep"
    /\ (Len(clamped) % input_len) # 0 /\ raised = "ValueError"

(***************************************************************************)
(* Converter._merge (preprocess.py 90-121)                                 *)
(***************************************************************************)
\* Bound of the number of source tracks drawn.
MaxSrcTracks == 2

\* Programs drawn: the first program of each of the 16 families of 8, and
\* the last program of the families the code names and of the last family.
Programs == {8 * f : f \in 0..15} \cup {8 * f + 7 : f \in {0, 3, 4, 5, 15}}

\* The Instrument enum, in declaration order (the insertion order of
\* category_list, which the output loop follows).
InstrumentNames == <<"Piano", "Guitar", "Bass", "Strings">>
program_dict == [Piano |-> 0, Guitar |-> 24, Bass |-> 32, Strings |-> 48]

\* A mutant of the bucket chain: the final else drops the track.
Category_else_dropped(track) ==
    IF track.is_drum THEN "none"
    ELSE IF track.program \div 8 = 0 THEN "Piano"
    ELSE IF track.program \div 8 = 3 THEN "Guitar"
    ELSE IF track.program \div 8 = 4 THEN "Bass"
    ELSE IF track.program \div 8 = 5 THEN "Strings"
    ELSE "none"

\* The if/elif chain of the loop over multitrack.tracks: the list a track's
\* index is appended to ("none": to no list).
Category(track) ==
    IF track.is_drum THEN "none"
    ELSE IF track.program \div 8 = 0 THEN "Piano"
    ELSE IF track.program \div 8 = 3 THEN "Guitar"
    ELSE IF track.program \div 8 = 4 THEN "Bass"
    ELSE IF track.program \div 8 = 5 THEN "Strings"
    ELSE "Strings"

\* category_list[key] after the loop: the indices in increasing order.
category_list(trks, key) ==
    SelectSeq([i \in 1..Len(trks) |-> i], LAMBDA i : Category(trks[i]) = key)

\* multitrack[index_list].get_merged_pianoroll(): a cell of the merged
\* piano-roll is non-zero iff it is non-zero in one of the listed tracks.
get_merged_pianoroll(trks, index_list) ==
    UNION {trks[index_list[n]].pianoroll : n \in 1..Len(index_list)}

\* The tracks of the Multitrack that _merge returns.
Converter_merge(trks) ==
    [k \in 1..Len(InstrumentNames) |->
        LET key == InstrumentNames[k]
            index_list == category_list(trks, key)
        IN  IF index_list # << >>
            THEN [pianoroll |-> get_merged_pianoroll(trks, index_list),
                  program |-> program_dict[key], is_drum |-> FALSE, name |-> key]
            ELSE [pianoroll |-> {},
                  program |-> program_dict[key], is_drum |-> FALSE, name |-> key]]

\* Source tracks: track i holds one note of its own, the cell i.
SourceTracks ==
    UNION {[1..n -> [program : Programs, is_drum : BOOLEAN]] : n \in 0..MaxSrcTracks}

InitMerge ==
    /\ pc = "merge"
    /\ raised = "none"
    /\ \E src \in SourceTracks :
        tracks = [i \in 1..Len(src) |->
                    [program |-> src[i].program, is_drum |-> src[i].is_drum, pianoroll |-> {i}]]
    /\ merged = << >>
    /\ IdleSplit /\ IdleFilter /\ IdleBatch /\ IdleSynth

merge ==
    /\ pc = "merge"
    /\ merged' = Converter_merge(tracks)
    /\ pc' = "merge_done"
    /\ UNCHANGED <<raised, tracks, splitVars, filterVars, batchVars, synthVars>>

NextMerge == merge

SpecMerge == InitMerge /\ [][NextMerge]_vars

\* The output position the claim assigns to a program family.
BucketOf(program) ==
    CASE program \div 8 = 0 -> 1
      [] program \div 8 = 3 -> 2
      [] program \div 8 = 4 -> 3
      [] OTHER -> 4

\* C2: _merge yields the 4 tracks Piano, Guitar, Bass, Strings in this order;
\* a drum track contributes to none of them, a non-drum track to exactly the
\* one its program family selects, and a track without contributors is empty.
C2_MergeCompleteness ==
    pc = "merge_done" =>
        /\ Len(merged) = 4
        /\ [k \in 1..4 |-> merged[k].name] = <<"Piano", "Guitar", "Bass", "Strings">>
        /\ \A i \in 1..Len(tracks), k \in 1..4 :
            (i \in merged[k].pianoroll) <=>
                (~tracks[i].is_drum /\ k = BucketOf(tracks[i].program))
        /\ \A k \in 1..4 :
            (\A i \in 1..Len(tracks) :
                tracks[i].is_drum \/ BucketOf(tracks[i].program) # k)
            => merged[k].pianoroll = {}

C2_Witness ==
    /\ pc = "merge_done"
    /\ \E i, j \in 1..Len(tracks) :
        /\ tracks[i].is_drum
        /\ ~tracks[j].is_drum /\ tracks[j].program \div 8 \notin {0, 3, 4, 5}
        /\ j \in merged[4].pianoroll
    /\ merged[1].pianoroll = {}

(***************************************************************************)
(* isSuitable (preprocess.py 21-66)                                        *)
(***************************************************************************)
\* Bound of the number of time-signature changes drawn.
MaxTS == 2

\* Python's None is << >>, a value x that may be None is <<x>>.
None == << >>

\* '{}'.format(n) for n >= 0: the decimal digits.
DigitChar == <<"0", "1", "2", "3", "4", "5", "6", "7", "8", "9">>
RECURSIVE Digits(_)
Digits(n) ==
    IF n < 10 THEN <<DigitChar[n + 1]>>
    ELSE Digits(n \div 10) \o <<DigitChar[(n % 10) + 1]>>

\* '{}/{}'.format(numerator, denominator)
FormatTimeSign(numerator, denominator) ==
    Digits(numerator) \o <<"/">> \o Digits(denominator)

\* list.sort(key=lambda x: x.time): stable, by insertion.
RECURSIVE SortByTime(_)
InsertByTime(x, sorted) ==
    LET after == {i \in 1..Len(sorted) : sorted[i].time > x.time}
        at == IF after = {} THEN Len(sorted) + 1
              ELSE CHOOSE i \in after : \A j \in after : i <= j
    IN  SubSeq(sorted, 1, at - 1) \o <<x>> \o SubSeq(sorted, at, Len(sorted))
SortByTime(changes) ==
    IF changes = << >> THEN << >>
    ELSE InsertByTime(changes[Len(changes)], SortByTime(SubSeq(changes, 1, Len(changes) - 1)))

\* _get_midi_info(pm).  The velocities entry (a count of distinct note
\* velocities) is not read by isSuitable and is left out.
get_midi_info(p) ==
    LET changes == SortByTime(p.time_signature_changes)
    IN  IF changes = << >> /\ p.estimate_raises
        THEN [raised |-> TRUE, info |-> None]
        ELSE [raised |-> FALSE,
              info |-> <<[first_beat_time |-> IF changes # << >> THEN changes[1].time
                                              ELSE p.estimate_beat_start,
                          num_time_signature_change |-> Len(changes),
                          time_signature |-> IF Len(changes) = 1
                                             THEN FormatTimeSign(changes[1].numerator,
                                                                 changes[1].denominator)
                                             ELSE None,
                          tempo |-> IF Len(p.tempi) = 1 THEN <<p.tempi[1]>> ELSE None]>>]

\* A mutant of the filter chain: the pickup test is missing.
PassesFilter_no_pickup_test(info) ==
    IF info.num_time_signature_change > 1 THEN FALSE
    ELSE IF info.time_signature \notin {<<"4", "/", "4">>} THEN FALSE
    ELSE TRUE

\* A mutant of the filter chain: a file without a unique tempo is rejected.
PassesFilter_single_tempo(info) ==
    IF info.first_beat_time > 0 THEN FALSE
    ELSE IF info.num_time_signature_change > 1 THEN FALSE
    ELSE IF info.time_signature \notin {<<"4", "/", "4">>} THEN FALSE
    ELSE IF info.tempo = None THEN FALSE
    ELSE TRUE

\* The if/elif chain on midi_info that ends isSuitable.
PassesFilter(info) ==
    IF info.first_beat_time > 0 THEN FALSE
    ELSE IF info.num_time_signature_change > 1 THEN FALSE
    ELSE IF info.time_signature \notin {<<"4", "/", "4">>} THEN FALSE
    ELSE TRUE

\* The files drawn: whether PrettyMIDI(path) parses, the time-signature
\* changes in file order (times in seconds, never negative), what
\* estimate_beat_start does, and the tempi of get_tempo_changes (one entry
\* per tempo segment, at least one).
TimeSignatures == [time : {0, 1}, numerator : {3, 4}, denominator : {4, 8}]
MidiFiles ==
    [parsed : BOOLEAN,
     time_signature_changes : UNION {[1..n -> TimeSignatures] : n \in 0..MaxTS},
     estimate_raises : BOOLEAN,
     estimate_beat_start : {0, 1},
     tempi : {<<120>>, <<120, 90>>}]

InitFilter ==
    /\ pc = "filter"
    /\ raised = "none"
    /\ pm \in MidiFiles
    /\ midi_info = << >>
    /\ suitable = FALSE
    /\ IdleSplit /\ IdleMerge /\ IdleBatch /\ IdleSynth

\* isSuitable(path): the bare except turns every error into False.
isSuitable ==
    /\ pc = "filter"
    /\ LET got == IF pm.parsed THEN get_midi_info(pm) ELSE [raised |-> TRUE, info |-> None]
       IN  /\ midi_info' = got.info
           /\ suitable' = IF got.raised THEN FALSE ELSE PassesFilter(got.info[1])
    /\ pc' = "filter_done"
    /\ UNCHANGED <<raised, pm, splitVars, mergeVars, batchVars, synthVars>>

NextFilter == isSuitable

SpecFilter == InitFilter /\ [][NextFilter]_vars

\* Parsing or analysing the file raises.
AnalysisFails ==
    \/ ~pm.parsed
    \/ pm.time_signature_changes = << >> /\ pm.estimate_raises

\* The file has exactly one time-signature change, 4/4, at time 0.
SingleCommonTimeAtZero ==
    /\ Len(pm.time_signature_changes) = 1
    /\ pm.time_signature_changes[1].time = 0
    /\ pm.time_signature_changes[1].numerator = 4
    /\ pm.time_signature_changes[1].denominator = 4

\* C3: isSuitable is False for a file with more than one time-signature
\* change and for a file whose parsing or analysis raises, and True only for
\* a file with exactly one time-signature change, 4/4, at time 0.
C3_FilterDeterminism ==
    pc = "filter_done" =>
        /\ Len(pm.time_signature_changes) > 1 => ~suitable
        /\ AnalysisFails => ~suitable
        /\ suitable => SingleCommonTimeAtZero

C3_Witness ==
    /\ pc = "filter_done" /\ suitable
    /\ pm.parsed /\ SingleCommonTimeAtZero

\* C4 as stated: a file with more than one tempo segment is rejected.
C4_MultiTempoRejected ==
    (pc = "filter_done" /\ Len(pm.tempi) > 1) => ~suitable

\* C4 as amended: for a file with more than one tempo segment the tempo of
\* midi_info is None and the verdict does not depend on it: the file is
\* accepted exactly when it parses and has one time-signature change, 4/4,
\* at time 0.
C4_MultiTempoNotFiltered ==
    (pc = "filter_done" /\ Len(pm.tempi) > 1) =>
        /\ midi_info # None => midi_info[1].tempo = None
        /\ suitable <=> (pm.parsed /\ SingleCommonTimeAtZero)

C4_Witness ==
    /\ pc = "filter_done" /\ Len(pm.tempi) > 1
    /\ SingleCommonTimeAtZero /\ suitable

(***************************************************************************)
(* preprocess (preprocess.py 178-208)                                      *)
(***************************************************************************)
\* Bounds of the corpus drawn: files, and segments per file.
MaxFiles == 3
MaxSegs == 2

\* What a discovered file does when it is processed: the verdict of
\* isSuitable, the call that raises ("none": no call does), the number of
\* segments split returns, and the 0-based segment whose saveMatrix raises.
\* (split is called in "remove" mode, in which its reshape cannot raise.)
FileKinds ==
    {[suitable |-> FALSE, fails |-> "none", segments |-> 0, at |-> 0]}
    \cup {[suitable |-> TRUE, fails |-> "none", segments |-> n, at |-> 0] : n \in 0..MaxSegs}
    \cup {[suitable |-> TRUE, fails |-> "convert", segments |-> 0, at |-> 0]}
    \cup UNION {{[suitable |-> TRUE, fails |-> "save", segments |-> n, at |-> k] : k \in 0..(n - 1)}
                : n \in 1..MaxSegs}

InitBatch ==
    /\ pc = "loop"
    /\ raised = "none"
    /\ path_list \in UNION {[1..n -> FileKinds] : n \in 0..MaxFiles}
    /\ next_path = 1
    /\ cnt = 0
    /\ outcome = [i \in 1..Len(path_list) |-> "pending"]
    /\ saved = {}
    /\ reported = -1
    /\ IdleSplit /\ IdleMerge /\ IdleFilter /\ IdleSynth

\* One iteration of `for path in path_list`, the handler of its try
\* included.  cnt is incremented before the file is converted.
ProcessPath ==
    /\ pc = "loop"
    /\ next_path <= Len(path_list)
    /\ LET f == path_list[next_path]
       IN  IF ~f.suitable
           THEN /\ cnt' = cnt
                /\ saved' = saved
                /\ outcome' = [outcome EXCEPT ![next_path] = "skipped"]
           ELSE /\ cnt' = cnt + 1
                /\ IF f.fails = "convert"
                   THEN /\ saved' = saved
                        /\ outcome' = [outcome EXCEPT ![next_path] = "failed"]
                   ELSE IF f.fails = "save"
                   THEN /\ saved' = saved \cup {<<next_path, k>> : k \in 0..(f.at - 1)}
                        /\ outcome' = [outcome EXCEPT ![next_path] = "failed"]
                   ELSE /\ saved' = saved \cup {<<next_path, k>> : k \in 0..(f.segments - 1)}
                        /\ outcome' = [outcome EXCEPT ![next_path] = "converted"]
    /\ next_path' = next_path + 1
    /\ UNCHANGED <<pc, raised, path_list, reported, splitVars, mergeVars, filterVars, synthVars>>

\* The print after the loop.
Summary ==
    /\ pc = "loop"
    /\ next_path > Len(path_list)
    /\ reported' = cnt
    /\ pc' = "batch_done"
    /\ UNCHANGED <<raised, path_list, next_path, cnt, outcome, saved,
                   splitVars, mergeVars, filterVars, synthVars>>

NextBatch == ProcessPath \/ Summary

SpecBatch == InitBatch /\ [][NextBatch]_vars

\* C7: preprocess visits every file, whatever failed before it, and the
\* count of its summary is the number of files whose segments were produced
\* (the files that were converted without raising).
C7_BatchResilience ==
    pc = "batch_done" =>
        /\ \A i \in 1..Len(path_list) : outcome[i] # "pending"
        /\ reported = Cardinality({i \in 1..Len(path_list) : outcome[i] = "converted"})

(***************************************************************************)
(* set_piano_roll_to_instrument (write_midi.py 21-113)                     *)
(***************************************************************************)
\* Bounds of the piano-rolls drawn: shape (segments, steps, 128) with at
\* most MaxCells time steps in all.
MaxSegments == 2
MaxSteps == 8
MaxCells == 8

\* Cell intensities in quarters: 0, 0.5 and 1.0.
Intensities == {0, 2, 4}
Tempos == {80, 120}
BeatResolutions == {1, 4, 16}
Pitches == {60}
Shapes == {sh \in (1..MaxSegments) \X (1..MaxSteps) : sh[1] * sh[2] <= MaxCells}

\* 60.0 / tempo, in units of 1/64 s.
Beat(tmp) == (60 * 64) \div tmp
tpp(tmp, res) == Beat(tmp) \div res
threshold(tmp) == Beat(tmp) \div 4
phrase_end_time(tmp, segments) == Beat(tmp) * 4 * segments

\* np.clip((x * 128).astype(int), 0, 127) of an intensity of q quarters.
Velocity(q) == Min(Max((q * 128) \div 4, 0), 127)

\* np.diff of the column between two zero rows; entry k (0-based) is at k + 1.
piano_roll_search(vel) ==
    LET d == <<0>> \o vel \o <<0>>
    IN  [k \in 1..(Len(vel) + 1) |-> d[k + 1] - d[k]]

\* (search > 0).nonzero() and (search < 0).nonzero(): 0-based indices.
Onsets(search) ==
    SelectSeq([k \in 1..Len(search) |-> k - 1], LAMBDA i : search[i + 1] > 0)
Offsets(search) ==
    SelectSeq([k \in 1..Len(search) |-> k - 1], LAMBDA i : search[i + 1] < 0)

\* [pair[1] - pair[0] for pair in zip(start, end)]
Durations(start, end) ==
    [k \in 1..Min(Len(start), Len(end)) |-> end[k] - start[k]]

\* list.pop(k), k 0-based and in range.
Pop(list, k) == SubSeq(list, 1, k) \o SubSeq(list, k + 2, Len(list))

\* The loop over j (0-based) of the de-duplication scan; `limit` is
\* start_time[i] + threshold.  temp_end_time[j] is read only when the first
\* conjunct holds, and raises IndexError when j is past its end.
RECURSIVE ScanWindow(_, _, _, _, _)
ScanWindow(ts, te, limit, j, t) ==
    IF j >= Len(ts) THEN [err |-> FALSE, t |-> t]
    ELSE IF ts[j + 1] < limit
         THEN IF j >= Len(te) THEN [err |-> TRUE, t |-> t]
              ELSE IF te[j + 1] <= limit
                   THEN ScanWindow(ts, te, limit, j + 1, Append(t, j))
                   ELSE ScanWindow(ts, te, limit, j + 1, t)
         ELSE ScanWindow(ts, te, limit, j + 1, t)

\* `for _ in t: temp_start_time.pop(t[0]); temp_end_time.pop(t[0])`, n = len(t).
RECURSIVE PopBoth(_, _, _, _)
PopBoth(ts, te, k, n) ==
    IF n = 0 THEN [err |-> FALSE, ts |-> ts, te |-> te]
    ELSE IF k >= Len(ts) \/ k >= Len(te) THEN [err |-> TRUE, ts |-> ts, te |-> te]
    ELSE PopBoth(Pop(ts, k), Pop(te, k), k, n - 1)

\* The loop over i (0-based) of the de-duplication scan.
RECURSIVE Dedup(_, _, _, _, _)
Dedup(start, ts, te, thr, i) ==
    IF i >= Len(start) THEN [err |-> FALSE, ts |-> ts, te |-> te]
    ELSE IF (\E m \in 1..Len(ts) : ts[m] = start[i + 1]) /\ i # Len(start) - 1
    THEN LET current_idx == (CHOOSE m \in 1..Len(ts) :
                                /\ ts[m] = start[i + 1]
                                /\ \A n \in 1..(m - 1) : ts[n] # start[i + 1]) - 1
             scan == ScanWindow(ts, te, start[i + 1] + thr, current_idx + 1, << >>)
         IN  IF scan.err THEN [err |-> TRUE, ts |-> ts, te |-> te]
             ELSE IF scan.t = << >> THEN Dedup(start, ts, te, thr, i + 1)
             ELSE LET popped == PopBoth(ts, te, scan.t[1], Len(scan.t))
                  IN  IF popped.err THEN popped
                      ELSE Dedup(start, popped.ts, popped.te, thr, i + 1)
    ELSE Dedup(start, ts, te, thr, i + 1)

\* The note the emit loop appends for idx (0-based).  The velocity is read
\* at start_idx[0][idx], the onsets found before the scan.
EmitNote(idx, vel, start_idx, start, end, dur, thr, phrase_end, pitch) ==
    LET velocity == vel[start_idx[idx + 1] + 1]
        s == start[idx + 1]
    IN  IF dur[idx + 1] >= thr
        THEN [velocity |-> velocity, pitch |-> pitch, start |-> s, end |-> end[idx + 1]]
        ELSE IF s + thr <= phrase_end
        THEN [velocity |-> velocity, pitch |-> pitch, start |-> s, end |-> s + thr]
        ELSE [velocity |-> velocity, pitch |-> pitch, start |-> s, end |-> phrase_end]

\* instrument.notes.sort(key=lambda note: note.start): stable.
RECURSIVE SortByStart(_)
InsertByStart(x, sorted) ==
    LET after == {i \in 1..Len(sorted) : sorted[i].start > x.start}
        at == IF after = {} THEN Len(sorted) + 1
              ELSE CHOOSE i \in after : \A j \in after : i <= j
    IN  SubSeq(sorted, 1, at - 1) \o <<x>> \o SubSeq(sorted, at, Len(sorted))
SortByStart(ns) ==
    IF ns = << >> THEN << >>
    ELSE InsertByStart(ns[Len(ns)], SortByStart(SubSeq(ns, 1, Len(ns) - 1)))

\* The body of `for note_num in range(128)` for the column `col`, and the
\* final sort.
Reconstruct(col, segments, tmp, res, pitch) ==
    LET vel == [k \in 1..Len(col) |-> Velocity(col[k])]
        search == piano_roll_search(vel)
        start_idx == Onsets(search)
        end_idx == Offsets(search)
        start0 == [k \in 1..Len(start_idx) |-> tpp(tmp, res) * start_idx[k]]
        end0 == [k \in 1..Len(end_idx) |-> tpp(tmp, res) * end_idx[k]]
        scan == Dedup(start0, start0, end0, threshold(tmp), 0)
    IN  IF scan.err
        THEN [raised |-> "IndexError", start_time |-> start0, end_time |-> end0,
              duration |-> Durations(start0, end0), notes |-> << >>]
        ELSE LET dur == Durations(scan.ts, scan.te)
                 start == IF Len(scan.te) < Len(scan.ts)
                          THEN SubSeq(scan.ts, 1, Len(scan.ts) - (Len(scan.ts) - Len(scan.te)))
                          ELSE scan.ts
             IN  [raised |-> "none", start_time |-> start, end_time |-> scan.te,
                  duration |-> dur,
                  notes |-> SortByStart(
                      [n \in 1..Len(start) |->
                          EmitNote(n - 1, vel, start_idx, start, scan.te, dur,
                                   threshold(tmp), phrase_end_time(tmp, segments), pitch)])]

InitSynth ==
    /\ pc = "synth"
    /\ raised = "none"
    /\ shape \in Shapes
    /\ piano_roll \in [1..(shape[1] * shape[2]) -> Intensities]
    /\ tempo \in Tempos
    /\ beat_res \in BeatResolutions
    /\ note_num \in Pitches
    /\ start_time = << >> /\ end_time = << >> /\ duration = << >> /\ notes = << >>
    /\ IdleSplit /\ IdleMerge /\ IdleFilter /\ IdleBatch

set_piano_roll_to_instrument ==
    /\ pc = "synth"
    /\ LET r == Reconstruct(piano_roll, shape[1], tempo, beat_res, note_num)
       IN  /\ raised' = r.raised
           /\ start_time' = r.start_time
           /\ end_time' = r.end_time
           /\ duration' = r.duration
           /\ notes' = r.notes
    /\ pc' = "synth_done"
    /\ UNCHANGED <<piano_roll, shape, tempo, beat_res, note_num,
                   splitVars, mergeVars, filterVars, batchVars>>

NextSynth == set_piano_roll_to_instrument

SpecSynth == InitSynth /\ [][NextSynth]_vars

\* C5: every note appended has end > start.
C5_NoteEndsAfterStart ==
    pc = "synth_done" => \A n \in 1..Len(notes) : notes[n].end > notes[n].start

\* C6: the notes emitted for the pitch are pairwise non-overlapping.
C6_NotesDoNotOverlap ==
    pc = "synth_done" =>
        \A a, b \in 1..Len(notes) :
            a # b => (notes[a].end <= notes[b].start \/ notes[b].end <= notes[a].start)

\* C8: every note starts at an onset pixel times tpp and has the scaled
\* intensity of the cell at that pixel as its velocity.
C8_VelocityOfOwnOnset ==
    pc = "synth_done" =>
        \A n \in 1..Len(notes) :
            \E k \in 0..(Len(piano_roll) - 1) :
                /\ notes[n].start = k * tpp(tempo, beat_res)
                /\ Velocity(piano_roll[k + 1]) > (IF k = 0 THEN 0 ELSE Velocity(piano_roll[k]))
                /\ notes[n].velocity = Velocity(piano_roll[k + 1])

\* C9: the scan ends without an out-of-range access, and the lists the
\* notes are emitted from have one length.
C9_ScanCompletesListsMatch ==
    pc = "synth_done" =>
        /\ raised = "none"
        /\ Len(start_time) = Len(end_time)
        /\ Len(end_time) = Len(duration)

=============================================================================
